---- MODULE Spec2Model ----
(***************************************************************************)
(* Model of TMGToolbox/src/input_output/merge_functions.py: the merge of   *)
(* the function table parsed from a transaction file into the live         *)
(* function store (emmebank), with the rollback of _NewFunctionMANAGER.    *)
(*                                                                         *)
(* Strings are sequences of one-character strings; a dict is a function    *)
(* whose DOMAIN is its key set.  Function ids are sequences of digits so   *)
(* that Python's lexicographic string order can be computed.               *)
(*                                                                         *)
(* The dict methods iterkeys / iteritems are those of Python 2, the        *)
(* interpreter the module is written for.  The store keeps an expression   *)
(* exactly as it is given.  Spec is the tool over a store and a logbook    *)
(* whose calls succeed; SpecFail adds the calls of the forward path        *)
(* (create_function, the expression assignment, the logbook writes) that   *)
(* raise.  The calls of the except clause itself are taken to succeed.     *)
(*                                                                         *)
(* SpecRun is a whole call of run(): the check of FunctionFile, the loop   *)
(* of _LoadFunctionFile over lines the reader delivers one at a time, then *)
(* the merge.  A line is the sequence of its characters, without the line  *)
(* terminator; whitespace is the space and the tab.                        *)
(***************************************************************************)
EXTENDS Integers, Sequences, FiniteSets, TLC

\* ---------------------------------------------------------------- bounds
NumIds == 3
MaxRuns == 2
MaxLines == 5

\* ---------------------------------------------------------------- inputs
\* Function ids "1", "10", "2", "3" (lexicographic order: "1" < "10" < "2").
AllIds == << <<1>>, <<2>>, <<1, 0>>, <<3>>, <<2, 0>> >>
Ids == {AllIds[i] : i \in 1..NumIds}

\* Expressions a transaction file can yield: the parser removes every space.
FileExprs == { <<"x">>, <<"y">> }
\* Expressions the store can hold, with and without spaces.
DbExprs == { <<"x">>, <<"x", " ">>, <<"y", " ">> }

RAISE_OPTION == "RAISE"
PRESERVE_OPTION == "PRESERVE"
OVERWRITE_OPTION == "OVERWRITE"
EDIT_OPTION == "EDIT"
\* ConflictOption is a free string attribute: "OTHER" stands for any value
\* outside the enumerated options.
Options == {RAISE_OPTION, PRESERVE_OPTION, OVERWRITE_OPTION, EDIT_OPTION, "OTHER"}

\* Lines a transaction file can hold (without their line terminator).
Lines == {
    << "c", " ", "x" >>,                                    \* c x
    << "t", " ", "f", "u", "n", "c", "t", "i", "o", "n", "s" >>,
    << "t", " ", "m" >>,                                    \* t m
    << "a", " ", "1", " ", "=", " ", "x", " ", "+" >>,      \* a 1 = x +
    << "a", " ", "1", " ", "=", "y" >>,                     \* a 1 =y
    << "a", " ", "2", "=", "\t", "y", " " >>,               \* a 2=<tab>y<space>
    << "a", " ", "2" >>,                                    \* a 2
    << " ", " ", "y" >>,                                    \* continuation y
    << " ", " ", " ", "x", " ", "y", " " >>,                \* continuation x y
    << " ", " ", "\t", "x", "\t", "y" >>,                   \* <tab>x<tab>y
    << "d", " ", "1" >>,
    << "m", " ", "1" >>,
    << >>,                                                  \* empty line
    << " ", " " >>,                                         \* blank line
    << "x", " ", "1" >>                                     \* unknown code
}

\* Stores of the runs that start at run(): ids "1" and "2".
RunStores == {
    [x \in {} |-> <<>>],
    [x \in {<<1>>, <<2>>} |-> IF x = <<1>> THEN << "x", " ", "+" >> ELSE << "y" >>],
    [x \in {<<2>>} |-> << "\t", "y" >>],
    [x \in {<<1>>, <<2>>} |-> IF x = <<1>> THEN << "y", " ", "y" >> ELSE << "x" >>]
}

Tables(E) == UNION {[S -> E] : S \in SUBSET Ids}
EmptyDict == [x \in {} |-> <<>>]
None == <<>>

VARIABLES
    emmebank,            \* the live store: id -> expression
    fileFunctions,       \* table returned by _LoadFunctionFile
    ConflictOption,
    RevertOnError,
    is_sub_call,
    function_conflicts,
    show_edit_dialog,
    databaseFunctions,   \* table returned by _LoadFunctionsInDatabank
    newFunctions,        \* list of ids added by this call
    modifiedFunctions,   \* dict id -> expression recorded for rollback
    conflicts,           \* list of (id, database_expression, file_expression)
    pc,                  \* position inside run / _Execute / _MergeFunctions
    error,               \* exception escaping the call, "none" if none
    result,              \* (len(newFunctions), len(modifiedFunctions)) or None
    preStore,            \* history: the store when the current call started
    storeOps,            \* history: store calls made by the current call
    run,                 \* number of the current call of run()
    message,             \* (count, text) formatted into the RAISE exception
    FunctionFile,        \* tool attribute: None, or <<path>>
    line,                \* the line the reader delivered last, as read
    nread,               \* number of lines delivered so far
    functions,           \* _LoadFunctionFile: the table being built
    expressionBuffer,
    trecord,
    currentId,           \* None, or <<id>>
    tSeen,               \* history: a t record has been read
    lastA,               \* history: <<id>> of the last a record, None after d/m
    rawFunctions,        \* history: id -> payloads of its last a record and
                         \* of the continuation lines after it, as read
    aRecords             \* history: id -> number of a records read for it

Parser == << FunctionFile, line, nread, functions, expressionBuffer, trecord,
            currentId, tSeen, lastA, rawFunctions, aRecords >>

vars == << emmebank, fileFunctions, ConflictOption, RevertOnError, is_sub_call,
           function_conflicts, show_edit_dialog, databaseFunctions,
           newFunctions, modifiedFunctions, conflicts, pc, error, result,
           preStore, storeOps, run, message, Parser >>

\* ------------------------------------------------------- pure functions
Range(s) == {s[i] : i \in 1..Len(s)}

\* str.replace(' ', '')
RemoveSpaces(s) == SelectSeq(s, LAMBDA c : c # " ")

\* Python's < on strings: first differing character decides, a proper
\* prefix is smaller.
RECURSIVE StrLess(_, _)
StrLess(a, b) ==
    IF b = <<>> THEN FALSE
    ELSE IF a = <<>> THEN TRUE
    ELSE IF Head(a) # Head(b) THEN Head(a) < Head(b)
    ELSE StrLess(Tail(a), Tail(b))

\* emmebank.create_function(id, expression)
CreateFunction(bank, id, expression) ==
    [x \in DOMAIN bank \cup {id} |-> IF x = id THEN expression ELSE bank[x]]

\* emmebank.function(id).expression = expression
SetExpression(bank, id, expression) ==
    [x \in DOMAIN bank |-> IF x = id THEN expression ELSE bank[x]]

\* emmebank.delete_function(id)
DeleteFunction(bank, id) == [x \in DOMAIN bank \ {id} |-> bank[x]]

\* _LoadFunctionsInDatabank without the whitespace removal
DatabankFunctionsRaw(bank) == [id \in DOMAIN bank |-> bank[id]]

\* _LoadFunctionsInDatabank: id -> expression with the spaces removed
DatabankFunctions(bank) == [id \in DOMAIN bank |-> RemoveSpaces(bank[id])]

\* a first loop over every id of the file
NewIdsAll(db, file) == DOMAIN file

\* the two id sets of the loops exchanged
NewIdsSwapped(db, file) == DOMAIN file \cap DOMAIN db

\* fileIds - databaseIds
NewIds(db, file) == DOMAIN file \ DOMAIN db

\* fileIds & databaseIds
CommonIds(db, file) == DOMAIN file \cap DOMAIN db

\* the comparison of the detection loop inverted
ConflictSetInverted(db, file) ==
    { <<id, db[id], file[id]>> : id \in {i \in CommonIds(db, file) : file[i] = db[i]} }

\* the tuples appended to conflicts by the loop over fileIds & databaseIds
ConflictSet(db, file) ==
    { <<id, db[id], file[id]>> : id \in {i \in CommonIds(db, file) : file[i] # db[i]} }

\* conflicts.sort(): tuples compare by their first component, the id, which
\* is unique in the list.
RECURSIVE SortConflicts(_)
SortConflicts(S) ==
    IF S = {} THEN <<>>
    ELSE LET m == CHOOSE t \in S : \A u \in S \ {t} : StrLess(t[1], u[1])
         IN  <<m>> \o SortConflicts(S \ {m})

\* conflicts_obj after conflicts_obj.sort(key=lambda x: x['id'])
ConflictsObj(cs) ==
    [i \in 1..Len(cs) |-> [id |-> cs[i][1], database_expression |-> cs[i][2],
                           file_expression |-> cs[i][3]]]

\* a dispatch whose EDIT branch overwrites
DispatchEditOverwrites(option, cs) ==
    IF Len(cs) = 0 THEN "none"
    ELSE IF option \in {OVERWRITE_OPTION, EDIT_OPTION} THEN "overwrite"
    ELSE IF option = RAISE_OPTION THEN "raise"
    ELSE "none"

\* a dispatch that overwrites under every option but RAISE
DispatchNotRaise(option, cs) ==
    IF Len(cs) = 0 THEN "none"
    ELSE IF option = RAISE_OPTION THEN "raise"
    ELSE IF option = EDIT_OPTION THEN "edit"
    ELSE "overwrite"

\* a dispatch that raises under RAISE whether or not there is a conflict
DispatchAlwaysRaise(option, cs) ==
    IF option = RAISE_OPTION THEN "raise"
    ELSE IF Len(cs) = 0 THEN "none"
    ELSE IF option = OVERWRITE_OPTION THEN "overwrite"
    ELSE IF option = EDIT_OPTION THEN "edit"
    ELSE "none"

\* if len(conflicts) > 0: if OVERWRITE ... elif EDIT ... elif RAISE ...
Dispatch(option, cs) ==
    IF Len(cs) = 0 THEN "none"
    ELSE IF option = OVERWRITE_OPTION THEN "overwrite"
    ELSE IF option = EDIT_OPTION THEN "edit"
    ELSE IF option = RAISE_OPTION THEN "raise"
    ELSE "none"

\* the overwrite loop taking the wrong field of the conflict tuple
OverwriteValueSwapped(conflict) == conflict[2]

\* func.expression = file_expression
OverwriteValue(conflict) == conflict[3]

RECURSIVE DeleteAll(_, _)
DeleteAll(bank, ids) ==
    IF ids = <<>> THEN bank
    ELSE DeleteAll(DeleteFunction(bank, Head(ids)), Tail(ids))

\* a rollback that re-saves every remaining function in normalised form
RevertedStoreNormalising(bank, newF, modF) ==
    LET deleted == DeleteAll(bank, newF)
    IN  [x \in DOMAIN deleted |->
            IF x \in DOMAIN modF THEN modF[x] ELSE RemoveSpaces(deleted[x])]

\* a rollback that restores the expressions but deletes nothing
RevertedStoreNoDelete(bank, newF, modF) ==
    [x \in DOMAIN bank |-> IF x \in DOMAIN modF THEN modF[x] ELSE bank[x]]

\* for id in newFunctions: delete_function(id);
\* for id, expression in modifiedFunctions.iteritems(): expression = ...
RevertedStore(bank, newF, modF) ==
    LET deleted == DeleteAll(bank, newF)
    IN  [x \in DOMAIN deleted |->
            IF x \in DOMAIN modF THEN modF[x] ELSE deleted[x]]

\* an except clause that ignores RevertOnError
ManagerExitAlwaysRevert(bank, revert, newF, modF) == RevertedStore(bank, newF, modF)

\* the except clause of _NewFunctionMANAGER: the store it leaves
ManagerExit(bank, revert, newF, modF) ==
    IF revert THEN RevertedStore(bank, newF, modF) ELSE bank

\* the store calls the except clause makes
ManagerOps(revert, newF, modF) ==
    IF revert
    THEN {<<"delete", id>> : id \in Range(newF)}
         \cup {<<"restore", id>> : id \in DOMAIN modF}
    ELSE {}

\* ---------------------------------------------------------------- text
\* The characters of an id, for an id held as its sequence of digits.
DigitChars == << "0", "1", "2", "3", "4", "5", "6", "7", "8", "9" >>
IdText(id) == [i \in 1..Len(id) |-> DigitChars[id[i] + 1]]
IdKey(text) == [i \in 1..Len(text) |-> (CHOOSE d \in 0..9 : DigitChars[d + 1] = text[i])]

\* ', '.join(names)
RECURSIVE Join(_)
Join(names) ==
    IF names = <<>> THEN <<>>
    ELSE IF Len(names) = 1 THEN Head(names)
    ELSE Head(names) \o << ",", " " >> \o Join(Tail(names))

\* a message that names the conflicts in the order the set was iterated
RaiseMessageUnsorted(cs) ==
    << Len(cs), Join([i \in 1..Len(cs) |-> IdText(cs[Len(cs) + 1 - i][1])]) >>

\* tup = len(conflicts), ', '.join([t[0] for t in conflicts])
RaiseMessage(cs) == << Len(cs), Join([i \in 1..Len(cs) |-> IdText(cs[i][1])]) >>

\* -------------------------------------------------------------- parser
\* Python's whitespace, as far as a line of the file holds it (the line
\* terminator is not kept in the lines of the model).
IsSpace(c) == c \in {" ", "\t"}

\* str.rstrip()
RECURSIVE RStrip(_)
RStrip(s) ==
    IF s = <<>> THEN <<>>
    ELSE IF IsSpace(s[Len(s)]) THEN RStrip(SubSeq(s, 1, Len(s) - 1))
    ELSE s

RECURSIVE LStrip(_)
LStrip(s) ==
    IF s = <<>> THEN <<>>
    ELSE IF IsSpace(Head(s)) THEN LStrip(Tail(s))
    ELSE s

\* str.strip()
Strip(s) == LStrip(RStrip(s))

\* s[k:] for a 0-based k
From(s, k) == SubSeq(s, k + 1, Len(s))

\* s[:k] for a 0-based k
Upto(s, k) == SubSeq(s, 1, k)

\* record.startswith(prefix)
StartsWith(s, prefix) ==
    /\ Len(s) >= Len(prefix)
    /\ SubSeq(s, 1, Len(prefix)) = prefix

FunctionsWord == << "f", "u", "n", "c", "t", "i", "o", "n", "s" >>

HasChar(s, c) == \E i \in 1..Len(s) : s[i] = c

\* record.index(c), 0-based, for a record that holds c
IndexOf(s, c) == (CHOOSE i \in 1..Len(s) : s[i] = c /\ \A j \in 1..(i - 1) : s[j] # c) - 1

\* functions[key] = value
DictSet(d, key, value) ==
    [x \in DOMAIN d \cup {key} |-> IF x = key THEN value ELSE d[x]]

\* a t record accepted whatever its payload
TRecordOkAny(record) == TRUE

\* record.startswith("functions")
TRecordOk(record) == StartsWith(record, FunctionsWord)

\* an a record accepted before a t record
ARecordAllowedAlways(t) == TRUE

\* if not trecord: raise IOError("A before T")
ARecordAllowed(t) == t

\* if currentId is not None and trecord
ContinuationApplies(cur, t) == cur # None /\ t

\* a continuation payload appended as read
PayloadRaw(record) == record

\* s = record.strip().replace(' ', '')
Payload(record) == RemoveSpaces(Strip(record))

\* an a record whose fragment keeps its spaces
FragmentRaw(buffer, record, index) == From(record, index + 1)

\* an a record that appends to the buffer instead of resetting it
FragmentAppended(buffer, record, index) == buffer \o RemoveSpaces(From(record, index + 1))

\* expressionBuffer = record[(index + 1):].replace(' ', '')
Fragment(buffer, record, index) == RemoveSpaces(From(record, index + 1))

\* a d or m record that keeps the context open
ContextAfterDMKept(cur) == cur

\* currentId = None
ContextAfterDM(cur) == None

\* an unknown line code skipped like a comment
UnknownCodeSkipped(linecode) == "none"

\* else: raise KeyError(linecode)
UnknownCode(linecode) == "KeyError"

\* The locals of the loop of _LoadFunctionFile, with the exception a line
\* raises ("none" when it raises nothing).
ParserState(f, b, t, c, e) ==
    [functions |-> f, expressionBuffer |-> b, trecord |-> t, currentId |-> c, err |-> e]

Raises(st, e) == [st EXCEPT !.err = e]

\* a continuation branch that extends the buffer and not the table
ContinuationStepNoStore(st, record) ==
    IF ContinuationApplies(st.currentId, st.trecord)
    THEN [st EXCEPT !.expressionBuffer = st.expressionBuffer \o Payload(record)]
    ELSE st

\* a continuation branch that raises when no t record was read
ContinuationStepStrict(st, record) ==
    IF ~st.trecord THEN Raises(st, "ABeforeT")
    ELSE IF st.currentId # None
    THEN LET buf == st.expressionBuffer \o Payload(record)
         IN  [st EXCEPT !.expressionBuffer = buf,
                        !.functions = DictSet(st.functions, st.currentId[1], buf)]
    ELSE st

\* elif linecode == ' ': the branch of a continuation line
ContinuationStep(st, record) ==
    IF ContinuationApplies(st.currentId, st.trecord)
    THEN LET buf == st.expressionBuffer \o Payload(record)
         IN  [st EXCEPT !.expressionBuffer = buf,
                        !.functions = DictSet(st.functions, st.currentId[1], buf)]
    ELSE st

\* a parser whose exception is swallowed: the loop goes on
AfterLineSwallowed(err) == "parse"

\* an exception leaves the loop and the call; otherwise the loop goes on
AfterLine(err) == IF err = "none" THEN "parse" ELSE "done"

\* One iteration of the loop of _LoadFunctionFile on the line l.
ParseStep(st, l) ==
    LET ln == RStrip(l)
    IN  IF ln = <<>> THEN Raises(st, "IndexError")   \* linecode = line[0]
        ELSE
        LET linecode == ln[1]
            record == From(ln, 2)
        IN  CASE linecode = "c" -> st
              [] linecode = "t" ->
                    IF ~TRecordOk(record) THEN Raises(st, "WrongT")
                    ELSE [st EXCEPT !.trecord = TRUE]
              [] linecode = "a" ->
                    IF ~ARecordAllowed(st.trecord) THEN Raises(st, "ABeforeT")
                    ELSE IF ~HasChar(record, "=") THEN Raises(st, "ValueError")
                    ELSE LET index == IndexOf(record, "=")
                             id == Strip(Upto(record, index))
                             buf == Fragment(st.expressionBuffer, record, index)
                         IN  [st EXCEPT !.currentId = << id >>,
                                        !.expressionBuffer = buf,
                                        !.functions = DictSet(st.functions, id, buf)]
              [] linecode = " " -> ContinuationStep(st, record)
              [] linecode \in {"d", "m"} ->
                    [st EXCEPT !.currentId = ContextAfterDM(st.currentId),
                               !.expressionBuffer = <<>>]
              [] OTHER -> Raises(st, UnknownCode(linecode))

\* ------------------------------------------------- history of the file
\* The payload of a line as read: everything from the third character.
PayloadOf(l) == From(l, 2)
IsRecord(l, codes) == l # <<>> /\ l[1] \in codes
\* The id and the fragment of an a record as read.
AHasId(l) == HasChar(PayloadOf(l), "=")
AId(l) == Strip(Upto(PayloadOf(l), IndexOf(PayloadOf(l), "=")))
AFragment(l) == From(PayloadOf(l), IndexOf(PayloadOf(l), "=") + 1)

\* ----------------------------------------------------------------- Init
\* The parser has returned: its locals are gone.
ParserIdle ==
    /\ FunctionFile = << "path" >>
    /\ line = <<>>
    /\ nread = 0
    /\ functions = EmptyDict
    /\ expressionBuffer = <<>>
    /\ trecord = FALSE
    /\ currentId = None
    /\ tSeen = FALSE
    /\ lastA = None
    /\ rawFunctions = EmptyDict
    /\ aRecords = EmptyDict

\* The call enters _MergeFunctions with a table the parser can return.
Init ==
    /\ emmebank \in Tables(DbExprs)
    /\ fileFunctions \in Tables(FileExprs)
    /\ ConflictOption \in Options
    /\ RevertOnError \in BOOLEAN
    /\ is_sub_call = FALSE
    /\ function_conflicts = None
    /\ show_edit_dialog = FALSE
    /\ databaseFunctions = EmptyDict
    /\ newFunctions = <<>>
    /\ modifiedFunctions = EmptyDict
    /\ conflicts = <<>>
    /\ pc = "load"
    /\ error = "none"
    /\ result = None
    /\ preStore = emmebank
    /\ storeOps = {}
    /\ run = 1
    /\ message = None
    /\ ParserIdle

Config == << fileFunctions, ConflictOption, RevertOnError, is_sub_call >>
Tool == << function_conflicts, show_edit_dialog >>

\* -------------------------------------------------------------- actions
\* _Execute: the snapshot of the store, then the entry of _MergeFunctions.
LoadFunctionsInDatabank ==
    /\ pc = "load"
    /\ databaseFunctions' = DatabankFunctions(emmebank)
    /\ newFunctions' = <<>>
    /\ modifiedFunctions' = EmptyDict
    /\ conflicts' = <<>>
    /\ pc' = "add"
    /\ UNCHANGED << emmebank, Config, Parser, message, Tool, error, result, preStore, storeOps, run >>

\* ids of the first loop not yet visited; a set is iterated in any order.
ToAdd == NewIds(databaseFunctions, fileFunctions) \ Range(newFunctions)

\* One iteration of the loop over fileIds - databaseIds.
AddFunction(id) ==
    /\ pc = "add"
    /\ id \in ToAdd
    /\ emmebank' = CreateFunction(emmebank, id, fileFunctions[id])
    /\ storeOps' = storeOps \cup {<<"create", id>>}
    /\ newFunctions' = Append(newFunctions, id)
    /\ UNCHANGED << Config, Parser, message, Tool, databaseFunctions, modifiedFunctions,
                    conflicts, pc, error, result, preStore, run >>

\* The loop over fileIds & databaseIds, and conflicts.sort().
DetectConflicts ==
    /\ pc = "add"
    /\ ToAdd = {}
    /\ conflicts' = SortConflicts(ConflictSet(databaseFunctions, fileFunctions))
    /\ pc' = "resolve"
    /\ UNCHANGED << emmebank, Config, Parser, message, Tool, databaseFunctions, newFunctions,
                    modifiedFunctions, error, result, preStore, storeOps, run >>

\* index in conflicts of the next tuple of the overwrite loop
NextConflict == Cardinality(DOMAIN modifiedFunctions) + 1

\* One iteration of the loop of the OVERWRITE branch.
Overwrite ==
    /\ pc = "resolve"
    /\ Dispatch(ConflictOption, conflicts) = "overwrite"
    /\ NextConflict <= Len(conflicts)
    /\ LET c == conflicts[NextConflict]
       IN  /\ emmebank' = SetExpression(emmebank, c[1], OverwriteValue(c))
           /\ storeOps' = storeOps \cup {<<"assign", c[1]>>}
           /\ modifiedFunctions' =
                  [x \in DOMAIN modifiedFunctions \cup {c[1]} |->
                      IF x = c[1] THEN c[2] ELSE modifiedFunctions[x]]
    /\ UNCHANGED << Config, Parser, message, Tool, databaseFunctions, newFunctions, conflicts,
                    pc, error, result, preStore, run >>

\* The EDIT branch.
EditConflicts ==
    /\ pc = "resolve"
    /\ Dispatch(ConflictOption, conflicts) = "edit"
    /\ function_conflicts' = ConflictsObj(conflicts)
    /\ show_edit_dialog' = (IF ~is_sub_call THEN TRUE ELSE show_edit_dialog)
    /\ pc' = "return"
    /\ UNCHANGED << emmebank, Config, Parser, message, databaseFunctions, newFunctions,
                    modifiedFunctions, conflicts, error, result, preStore,
                    storeOps, run >>

\* The RAISE branch: raise Exception(msg) inside the with block.
RaiseConflicts ==
    /\ pc = "resolve"
    /\ Dispatch(ConflictOption, conflicts) = "raise"
    /\ message' = RaiseMessage(conflicts)
    /\ error' = "ConflictError"
    /\ pc' = "except"
    /\ UNCHANGED << emmebank, Config, Parser, Tool, databaseFunctions, newFunctions,
                    modifiedFunctions, conflicts, result, preStore, storeOps, run >>

\* return len(newFunctions), len(modifiedFunctions)
Return ==
    /\ \/ pc = "return"
       \/ /\ pc = "resolve"
          /\ \/ Dispatch(ConflictOption, conflicts) = "none"
             \/ /\ Dispatch(ConflictOption, conflicts) = "overwrite"
                /\ NextConflict > Len(conflicts)
    /\ result' = << Len(newFunctions), Cardinality(DOMAIN modifiedFunctions) >>
    /\ pc' = "done"
    /\ UNCHANGED << emmebank, Config, Parser, message, Tool, databaseFunctions, newFunctions,
                    modifiedFunctions, conflicts, error, preStore, storeOps, run >>

\* The except clause of _NewFunctionMANAGER, then the re-raise.
NewFunctionMANAGER ==
    /\ pc = "except"
    /\ emmebank' = ManagerExit(emmebank, RevertOnError, newFunctions, modifiedFunctions)
    /\ storeOps' = storeOps \cup ManagerOps(RevertOnError, newFunctions, modifiedFunctions)
    /\ pc' = "done"
    /\ UNCHANGED << Config, Parser, message, Tool, databaseFunctions, newFunctions,
                    modifiedFunctions, conflicts, error, result, preStore, run >>

\* run() is called again on the same tool after a call that returned; the
\* locals of the finished call are gone.
Rerun ==
    /\ pc = "done"
    /\ error = "none"
    /\ run < MaxRuns
    /\ run' = run + 1
    /\ pc' = "load"
    /\ result' = None
    /\ preStore' = emmebank
    /\ storeOps' = {}
    /\ databaseFunctions' = EmptyDict
    /\ newFunctions' = <<>>
    /\ modifiedFunctions' = EmptyDict
    /\ conflicts' = <<>>
    /\ UNCHANGED << emmebank, Config, Parser, message, Tool, error >>

\* ------------------------------------------------- run and the parser
\* A call of run() on a fresh tool.
InitRun ==
    /\ emmebank \in RunStores
    /\ fileFunctions = EmptyDict
    /\ ConflictOption \in Options
    /\ RevertOnError \in BOOLEAN
    /\ is_sub_call = FALSE
    /\ function_conflicts = None
    /\ show_edit_dialog = FALSE
    /\ databaseFunctions = EmptyDict
    /\ newFunctions = <<>>
    /\ modifiedFunctions = EmptyDict
    /\ conflicts = <<>>
    /\ pc = "run"
    /\ error = "none"
    /\ result = None
    /\ preStore = emmebank
    /\ storeOps = {}
    /\ run = 1
    /\ message = None
    /\ FunctionFile \in {None, << "path" >>}
    /\ line = <<>>
    /\ nread = 0
    /\ functions = EmptyDict
    /\ expressionBuffer = <<>>
    /\ trecord = FALSE
    /\ currentId = None
    /\ tSeen = FALSE
    /\ lastA = None
    /\ rawFunctions = EmptyDict
    /\ aRecords = EmptyDict

Merge == << emmebank, databaseFunctions, newFunctions, modifiedFunctions,
           conflicts, result, preStore, storeOps, run, message >>

\* run(): the check of FunctionFile, then _Execute up to the open().
RunStart ==
    /\ pc = "run"
    /\ IF FunctionFile = None
       THEN error' = "IOError" /\ pc' = "done"
       ELSE error' = error /\ pc' = "parse"
    /\ UNCHANGED << Config, Tool, Merge, Parser >>

\* One iteration of "for line in reader" on the line l.  An exception leaves
\* _LoadFunctionFile, _Execute and run(), which re-raises it.
ParseLine(l) ==
    /\ pc = "parse"
    /\ nread < MaxLines
    /\ LET st == ParseStep(ParserState(functions, expressionBuffer, trecord,
                                       currentId, "none"), l)
           ok == st.err = "none"
       IN  /\ functions' = st.functions
           /\ expressionBuffer' = st.expressionBuffer
           /\ trecord' = st.trecord
           /\ currentId' = st.currentId
           /\ error' = st.err
           /\ pc' = AfterLine(st.err)
           /\ tSeen' = (tSeen \/ IsRecord(l, {"t"}))
           /\ lastA' = IF ok /\ IsRecord(l, {"a"}) THEN << AId(l) >>
                       ELSE IF IsRecord(l, {"d", "m"}) THEN None
                       ELSE lastA
           /\ rawFunctions' =
                 IF ok /\ IsRecord(l, {"a"})
                 THEN DictSet(rawFunctions, AId(l), << AFragment(l) >>)
                 ELSE IF ok /\ IsRecord(l, {" "}) /\ lastA # None
                 THEN DictSet(rawFunctions, lastA[1],
                              Append(rawFunctions[lastA[1]], PayloadOf(l)))
                 ELSE rawFunctions
           /\ aRecords' =
                 IF ok /\ IsRecord(l, {"a"})
                 THEN DictSet(aRecords, AId(l),
                              IF AId(l) \in DOMAIN aRecords THEN aRecords[AId(l)] + 1 ELSE 1)
                 ELSE aRecords
    /\ line' = l
    /\ nread' = nread + 1
    /\ UNCHANGED << Config, Tool, Merge, FunctionFile >>

\* The reader is exhausted: return functions, into file_functions.
ParseEOF ==
    /\ pc = "parse"
    /\ fileFunctions' = [k \in {IdKey(id) : id \in DOMAIN functions} |-> functions[IdText(k)]]
    /\ pc' = "load"
    /\ UNCHANGED << ConflictOption, RevertOnError, is_sub_call, Tool, Merge,
                    Parser, error >>

\* ------------------------------------------- failing store and log calls
\* emmebank.create_function raises: nothing is created.
AddCreateFails(id) ==
    /\ pc = "add"
    /\ id \in ToAdd
    /\ error' = "StoreError"
    /\ pc' = "except"
    /\ UNCHANGED << emmebank, Config, Parser, message, Tool, databaseFunctions, newFunctions,
                    modifiedFunctions, conflicts, result, preStore, storeOps, run >>

\* _m.logbook_write raises after create_function, before newFunctions.append.
AddLogFails(id) ==
    /\ pc = "add"
    /\ id \in ToAdd
    /\ emmebank' = CreateFunction(emmebank, id, fileFunctions[id])
    /\ storeOps' = storeOps \cup {<<"create", id>>}
    /\ error' = "LogError"
    /\ pc' = "except"
    /\ UNCHANGED << Config, Parser, message, Tool, databaseFunctions, newFunctions,
                    modifiedFunctions, conflicts, result, preStore, run >>

\* func.expression = file_expression raises: nothing is assigned.
OverwriteSetFails ==
    /\ pc = "resolve"
    /\ Dispatch(ConflictOption, conflicts) = "overwrite"
    /\ NextConflict <= Len(conflicts)
    /\ error' = "StoreError"
    /\ pc' = "except"
    /\ UNCHANGED << emmebank, Config, Parser, message, Tool, databaseFunctions, newFunctions,
                    modifiedFunctions, conflicts, result, preStore, storeOps, run >>

\* The logbook calls after modifiedFunctions[fid] = database_expression raise.
OverwriteLogFails ==
    /\ pc = "resolve"
    /\ Dispatch(ConflictOption, conflicts) = "overwrite"
    /\ NextConflict <= Len(conflicts)
    /\ LET c == conflicts[NextConflict]
       IN  /\ emmebank' = SetExpression(emmebank, c[1], OverwriteValue(c))
           /\ storeOps' = storeOps \cup {<<"assign", c[1]>>}
           /\ modifiedFunctions' =
                  [x \in DOMAIN modifiedFunctions \cup {c[1]} |->
                      IF x = c[1] THEN c[2] ELSE modifiedFunctions[x]]
    /\ error' = "LogError"
    /\ pc' = "except"
    /\ UNCHANGED << Config, Parser, message, Tool, databaseFunctions, newFunctions, conflicts,
                    result, preStore, run >>

\* ------------------------------------------------------- specifications
\* Store and logbook calls succeed: the only error is the one the code raises.
Next ==
    \/ LoadFunctionsInDatabank
    \/ \E id \in Ids : AddFunction(id)
    \/ DetectConflicts
    \/ Overwrite
    \/ EditConflicts
    \/ RaiseConflicts
    \/ Return
    \/ NewFunctionMANAGER
    \/ Rerun

Spec == Init /\ [][Next]_vars

\* Store and logbook calls may raise.
NextFail ==
    \/ Next
    \/ \E id \in Ids : AddCreateFails(id)
    \/ \E id \in Ids : AddLogFails(id)
    \/ OverwriteSetFails
    \/ OverwriteLogFails

SpecFail == Init /\ [][NextFail]_vars

\* A whole call of run(): the parser, then the merge, store calls succeeding.
NextRun ==
    \/ RunStart
    \/ \E l \in Lines : ParseLine(l)
    \/ ParseEOF
    \/ LoadFunctionsInDatabank
    \/ \E id \in Ids : AddFunction(id)
    \/ DetectConflicts
    \/ Overwrite
    \/ EditConflicts
    \/ RaiseConflicts
    \/ Return
    \/ NewFunctionMANAGER

SpecRun == InitRun /\ [][NextRun]_vars

\* ------------------------------------------------------------- typing
TypeOK ==
    /\ emmebank \in Tables(DbExprs \cup FileExprs)
    /\ fileFunctions \in Tables(FileExprs)
    /\ pc \in {"load", "add", "resolve", "return", "except", "done"}
    /\ error \in {"none", "ConflictError", "StoreError", "LogError"}
    /\ run \in 1..MaxRuns

\* ------------------------------------------- vocabulary of the claims
\* The sets below are taken from the store as it was when the call started
\* and from the file table, independently of the tables the code computes.
PreIds == DOMAIN preStore
FileIds == DOMAIN fileFunctions
DbOnlyIds == PreIds \ FileIds
FileOnlyIds == FileIds \ PreIds
BothIds == PreIds \cap FileIds
ConflictIds ==
    {id \in BothIds : RemoveSpaces(preStore[id]) # RemoveSpaces(fileFunctions[id])}
AgreeIds ==
    {id \in BothIds : RemoveSpaces(preStore[id]) = RemoveSpaces(fileFunctions[id])}
CreatedIds == {id \in Ids : <<"create", id>> \in storeOps}
AssignedIds == {id \in Ids : <<"assign", id>> \in storeOps}
TouchedIds == {op[2] : op \in storeOps}
RolledBack == \E op \in storeOps : op[1] \in {"delete", "restore"}
Finished == pc = "done"
Returned == pc = "done" /\ error = "none"
Failed == pc = "done" /\ error # "none"
StoreIsPreStore == emmebank = preStore

\* C1: under RAISE with at least one conflicting id the call raises, and with
\* RevertOnError no id created by the call is left in the store and every
\* function that existed before has its pre-call expression.
C1_RaiseRollsBack ==
    (Finished /\ ConflictOption = RAISE_OPTION /\ ConflictIds # {}) =>
        /\ error = "ConflictError"
        /\ RevertOnError =>
              /\ CreatedIds \cap DOMAIN emmebank = {}
              /\ \A id \in PreIds : id \in DOMAIN emmebank /\ emmebank[id] = preStore[id]

C1_Witness ==
    /\ Finished /\ ConflictOption = RAISE_OPTION /\ ConflictIds # {}
    /\ RevertOnError /\ error = "ConflictError"
    /\ Cardinality(CreatedIds) >= 2
    /\ StoreIsPreStore

\* C2: whatever failure escapes the add / detect / resolve sequence, with
\* RevertOnError every id the call created is deleted and every id whose
\* expression the call assigned has its original expression again.
C2_RollbackIsComplete ==
    (Failed /\ RevertOnError) =>
        /\ CreatedIds \cap DOMAIN emmebank = {}
        /\ \A id \in AssignedIds : emmebank[id] = preStore[id]

\* C3: in every state of every call, each id of the store that is not in the
\* file table is still in the store with the expression it had at the start.
C3_DatabaseOnlyUntouched ==
    \A id \in DbOnlyIds :
        /\ id \in DOMAIN emmebank
        /\ emmebank[id] = preStore[id]
        /\ id \notin TouchedIds

C3_Witness ==
    /\ Failed /\ RevertOnError /\ RolledBack
    /\ \E id \in DbOnlyIds : RemoveSpaces(preStore[id]) # preStore[id]
    /\ CreatedIds # {} /\ AssignedIds # {}

\* C4: after an OVERWRITE merge that returned, every conflicting id holds the
\* file's expression and the modified count is the number of conflicts.
C4_OverwriteTakesFile ==
    (Returned /\ ConflictOption = OVERWRITE_OPTION) =>
        /\ \A id \in ConflictIds : emmebank[id] = fileFunctions[id]
        /\ result[2] = Cardinality(ConflictIds)

C4_Witness ==
    /\ Returned /\ ConflictOption = OVERWRITE_OPTION
    /\ Cardinality(ConflictIds) >= 2
    /\ AgreeIds # {}
    /\ run = 1

\* C5: under PRESERVE the call returns, the modified count is 0 and every
\* conflicting id keeps the expression it had before the call.
C5_PreserveKeepsDatabase ==
    (Finished /\ ConflictOption = PRESERVE_OPTION) =>
        /\ error = "none"
        /\ result[2] = 0
        /\ \A id \in ConflictIds : emmebank[id] = preStore[id]
        /\ AssignedIds = {}

C5_Witness ==
    /\ Finished /\ ConflictOption = PRESERVE_OPTION
    /\ Cardinality(ConflictIds) >= 2
    /\ \E id \in ConflictIds : RemoveSpaces(preStore[id]) # preStore[id]

\* C6: when the two tables share no id, the call returns under every option,
\* every file id is created with the file's expression, the added count is
\* the number of file ids and the modified count is 0.
C6_DisjointAddsAll ==
    (Finished /\ BothIds = {}) =>
        /\ error = "none"
        /\ CreatedIds = FileIds
        /\ \A id \in FileIds : id \in DOMAIN emmebank /\ emmebank[id] = fileFunctions[id]
        /\ result = << Cardinality(FileIds), 0 >>

C6_Witness ==
    /\ Finished /\ BothIds = {}
    /\ ConflictOption = RAISE_OPTION
    /\ Cardinality(FileIds) >= 2 /\ PreIds # {}

\* C7: after a merge that returned, under any option, every id of the file
\* table that was not in the store is in the store with the file's expression
\* and the added count is the number of such ids.
C7_FileOnlyAdded ==
    Returned =>
        /\ \A id \in FileOnlyIds : id \in DOMAIN emmebank /\ emmebank[id] = fileFunctions[id]
        /\ result[1] = Cardinality(FileOnlyIds)

C7_Witness ==
    /\ Returned /\ run = 1
    /\ Cardinality(FileOnlyIds) >= 2
    /\ ConflictIds # {}
    /\ ConflictOption = PRESERVE_OPTION

\* C8: an id of both tables whose normalised expressions are equal is never
\* recorded as a conflict and no store call is made on it, under any option;
\* RAISE does not raise when such ids are the only common ones.
C8_EqualIsNoConflict ==
    /\ \A id \in AgreeIds :
          /\ \A i \in 1..Len(conflicts) : conflicts[i][1] # id
          /\ id \notin TouchedIds
          /\ id \in DOMAIN emmebank /\ emmebank[id] = preStore[id]
          /\ id \notin DOMAIN modifiedFunctions
    /\ (ConflictOption = RAISE_OPTION /\ ConflictIds = {}) => error # "ConflictError"

C8_Witness ==
    /\ Returned /\ ConflictOption = RAISE_OPTION
    /\ \E id \in AgreeIds : preStore[id] # fileFunctions[id]

\* C9: when an error escapes and RevertOnError is false, no rollback call is
\* made: every created function and every assigned expression stays.
C9_NoRevertLeavesMutations ==
    (Failed /\ ~RevertOnError) =>
        /\ ~RolledBack
        /\ \A id \in CreatedIds : id \in DOMAIN emmebank /\ emmebank[id] = fileFunctions[id]
        /\ \A id \in AssignedIds : emmebank[id] = fileFunctions[id]

C9_Witness ==
    /\ Failed /\ ~RevertOnError
    /\ CreatedIds # {} /\ AssignedIds # {}

\* C10: a second OVERWRITE merge of the same file table, on a fresh snapshot
\* of the store the first one left, returns (0, 0) and changes nothing.
C10_OverwriteIdempotent ==
    (run >= 2 /\ ConflictOption = OVERWRITE_OPTION) =>
        /\ StoreIsPreStore
        /\ storeOps = {}
        /\ error = "none"
        /\ Finished => result = << 0, 0 >>

C10_Witness ==
    /\ run = 2 /\ Finished /\ ConflictOption = OVERWRITE_OPTION
    /\ \E id \in FileIds : RemoveSpaces(emmebank[id]) # emmebank[id]
    /\ \E id \in FileIds : emmebank[id] = fileFunctions[id]

\* ------------------------------------ vocabulary of the parser claims
ParseErrors == {"WrongT", "ABeforeT", "KeyError", "IndexError", "ValueError"}
FormatErrors == {"WrongT", "ABeforeT", "KeyError"}
KnownCodes == {"c", "t", "a", " ", "d", "m"}
\* the step taken reads a line
ReadsLine == nread' = nread + 1
NoTable == fileFunctions = EmptyDict /\ pc \notin {"load", "add", "resolve", "return", "except"}
InParser == pc \in {"run", "parse"}
Detected == pc \in {"resolve", "return", "except"}
\* str with the spaces and the tabs removed
RemoveWhitespace(t) == SelectSeq(t, LAMBDA c : ~IsSpace(c))
RECURSIVE Concat(_)
Concat(parts) == IF parts = <<>> THEN <<>> ELSE Head(parts) \o Concat(Tail(parts))
\* The parts of an expression as read: the a fragment, then the payloads.
\* Every part without any whitespace:
PartsNoWhitespace(parts) ==
    [i \in 1..Len(parts) |->
        IF i = 1 THEN RemoveSpaces(RStrip(parts[i]))
        ELSE RemoveWhitespace(parts[i])]
\* Every part without its surrounding whitespace and its embedded spaces:
PartsNoSpaces(parts) ==
    [i \in 1..Len(parts) |->
        IF i = 1 THEN RemoveSpaces(RStrip(parts[i]))
        ELSE RemoveSpaces(Strip(parts[i]))]
\* The text of an expression of the file: its parts, trimmed, in file order.
FileText(parts) ==
    Concat([i \in 1..Len(parts) |-> IF i = 1 THEN RStrip(parts[i]) ELSE Strip(parts[i])])
RawText(parts) == Concat(parts)
ConflictIdSeq == [i \in 1..Len(conflicts) |-> conflicts[i][1]]

\* C11: while run() checks its input and parses the file no store call is
\* made, and a run that fails on a missing path or on the file has made none.
C11_ParseBeforeMutation ==
    /\ InParser => (storeOps = {} /\ emmebank = preStore)
    /\ (pc = "done" /\ error \in ParseErrors \cup {"IOError"}) =>
           (storeOps = {} /\ emmebank = preStore)

C11_Witness ==
    /\ pc = "done" /\ error = "KeyError"
    /\ \E id \in DOMAIN functions : IdKey(id) \notin DOMAIN emmebank
    /\ \E id \in DOMAIN functions : IdKey(id) \in DOMAIN emmebank
    /\ storeOps = {}

\* C12 as stated: the entry of an id is its a fragment followed by the
\* payloads of the continuation lines after it, each with all its
\* whitespace removed.
C12_AllWhitespaceRemoved ==
    \A id \in DOMAIN rawFunctions :
        id \in DOMAIN functions
        /\ functions[id] = Concat(PartsNoWhitespace(rawFunctions[id]))

\* C12 as amended: each payload loses its surrounding whitespace and its
\* embedded spaces; an embedded tab is kept.
C12_ContinuationsAppended ==
    \A id \in DOMAIN rawFunctions :
        id \in DOMAIN functions
        /\ functions[id] = Concat(PartsNoSpaces(rawFunctions[id]))

C12_Witness ==
    /\ pc = "parse"
    /\ \E id \in DOMAIN rawFunctions :
          /\ Len(rawFunctions[id]) >= 3
          /\ \E i \in 2..Len(rawFunctions[id]) :
                RemoveSpaces(Strip(rawFunctions[id][i])) # rawFunctions[id][i]
          /\ functions[id] = Concat(PartsNoSpaces(rawFunctions[id]))

\* C13: a d or m record changes no entry of the table and closes the
\* context; a continuation line read while no a record is open (after a d or
\* m record, before the next a record) changes no entry.
C13_DMClosesContext ==
    [][ /\ (ReadsLine /\ IsRecord(line', {"d", "m"})) =>
              (functions' = functions /\ currentId' = None /\ expressionBuffer' = <<>>
               /\ error' = "none")
        /\ (ReadsLine /\ IsRecord(line', {" "}) /\ lastA = None) =>
              (functions' = functions /\ currentId' = currentId) ]_vars

C13_Witness ==
    /\ pc = "parse" /\ nread >= 4
    /\ IsRecord(line, {" "}) /\ RStrip(line) # <<>>
    /\ lastA = None /\ currentId = None
    /\ functions # EmptyDict

\* C14: an a record read before any t record raises, the parse stops and no
\* table is returned.
C14_ABeforeTRaises ==
    (nread > 0 /\ IsRecord(line, {"a"}) /\ ~tSeen) =>
        /\ pc = "done" /\ error = "ABeforeT"
        /\ NoTable /\ functions = EmptyDict

C14_Witness ==
    /\ nread >= 2 /\ IsRecord(line, {"a"}) /\ ~tSeen
    /\ error = "ABeforeT"

\* C15 as stated: a continuation record read before any t record raises.
C15_ContinuationBeforeTRaises ==
    (nread > 0 /\ IsRecord(line, {" "}) /\ ~tSeen) => error \in FormatErrors

\* C15 as amended: a continuation record read before any t record raises no
\* format error and changes neither the table nor the context; when the line
\* is not blank it is skipped and the parse goes on.
C15_ContinuationBeforeTSkipped ==
    [][ (ReadsLine /\ IsRecord(line', {" "}) /\ ~tSeen) =>
            /\ error' \notin FormatErrors
            /\ functions' = functions /\ currentId' = currentId
            /\ expressionBuffer' = expressionBuffer /\ trecord' = trecord
            /\ RStrip(line') # <<>> => (error' = "none" /\ pc' = "parse") ]_vars

C15_Witness ==
    /\ pc = "parse" /\ nread >= 1 /\ ~tSeen
    /\ IsRecord(line, {" "}) /\ RStrip(line) # <<>>
    /\ error = "none"

\* C16: a t record whose payload does not start with "functions" raises and
\* the parse stops, wherever it is read; one whose payload does sets trecord.
C16_TRecordChecked ==
    (nread > 0 /\ IsRecord(line, {"t"})) =>
        IF StartsWith(PayloadOf(line), FunctionsWord)
        THEN trecord /\ error # "WrongT"
        ELSE pc = "done" /\ error = "WrongT" /\ NoTable

C16_Witness ==
    /\ IsRecord(line, {"t"}) /\ error = "WrongT"
    /\ trecord /\ functions # EmptyDict

\* C17: a line whose first character is no line code raises, no later line
\* is read and no table is returned, with or without a t record before it.
C17_UnknownCodeRaises ==
    (nread > 0 /\ line # <<>> /\ line[1] \notin KnownCodes) =>
        /\ pc = "done" /\ error = "KeyError"
        /\ NoTable /\ storeOps = {}

C17_Witness ==
    /\ nread >= 3 /\ line # <<>> /\ line[1] \notin KnownCodes
    /\ error = "KeyError" /\ trecord /\ functions # EmptyDict

\* C18: a blank line (empty once right-stripped) does not stop the parser:
\* it is taken as a continuation line and the parse goes on.
C18_BlankLineTolerated ==
    (nread > 0 /\ RStrip(line) = <<>>) => error \notin ParseErrors

\* C19 as stated: an id of both tables whose file text and store text are
\* equal once their spaces and tabs are removed is not recorded as a conflict.
C19_WhitespaceInsignificant ==
    Detected =>
        \A id \in DOMAIN rawFunctions :
            (IdKey(id) \in DOMAIN preStore
             /\ RemoveWhitespace(RawText(rawFunctions[id]))
                    = RemoveWhitespace(preStore[IdKey(id)]))
            => IdKey(id) \notin Range(ConflictIdSeq)

\* C19 as amended: an id of both tables whose file text (each payload
\* trimmed) and store text are equal once their spaces are removed is not
\* recorded as a conflict; a tab inside an expression counts.
C19_SpacesInsignificant ==
    Detected =>
        \A id \in DOMAIN rawFunctions :
            (IdKey(id) \in DOMAIN preStore
             /\ RemoveSpaces(FileText(rawFunctions[id]))
                    = RemoveSpaces(preStore[IdKey(id)]))
            => IdKey(id) \notin Range(ConflictIdSeq)

C19_Witness ==
    /\ Detected
    /\ \E id \in DOMAIN rawFunctions :
          /\ IdKey(id) \in DOMAIN preStore
          /\ RawText(rawFunctions[id]) # preStore[IdKey(id)]
          /\ Len(rawFunctions[id]) >= 2
          /\ RemoveSpaces(FileText(rawFunctions[id])) = RemoveSpaces(preStore[IdKey(id)])
          /\ IdKey(id) \notin Range(ConflictIdSeq)

\* The names of a message text: the text cut at every ", ".
RECURSIVE SplitNames(_, _)
SplitNames(text, name) ==
    IF text = <<>> THEN << name >>
    ELSE IF Len(text) >= 2 /\ text[1] = "," /\ text[2] = " "
         THEN << name >> \o SplitNames(From(text, 2), <<>>)
    ELSE SplitNames(Tail(text), Append(name, Head(text)))

\* C20: the conflict list holds every conflicting id once, in ascending
\* lexicographic order of the ids, and the error raised under RAISE carries
\* the number of conflicts and the ids in that order, joined by ", ".
C20_ConflictsSortedAndNamed ==
    /\ (pc \in {"resolve", "return"} \/ Returned \/ error = "ConflictError") =>
          /\ \A i, j \in 1..Len(conflicts) : i < j => StrLess(conflicts[i][1], conflicts[j][1])
          /\ Range(ConflictIdSeq) = ConflictIds
    /\ error = "ConflictError" =>
          /\ message[1] = Cardinality(ConflictIds)
          /\ SplitNames(message[2], <<>>) = [i \in 1..Len(conflicts) |-> IdText(conflicts[i][1])]
          /\ ConflictOption = RAISE_OPTION

C20_Witness ==
    /\ pc = "done" /\ error = "ConflictError"
    /\ Len(conflicts) >= 3
    /\ \E i \in 1..Len(conflicts) : Len(conflicts[i][1]) = 2

\* C21: under OVERWRITE the expression recorded in modifiedFunctions for an
\* overwritten id is the expression the store held before the call, spaces
\* included, so that a rollback puts back exactly that expression.
C21_ModifiedHoldsOriginal ==
    ConflictOption = OVERWRITE_OPTION =>
        /\ \A id \in DOMAIN modifiedFunctions : modifiedFunctions[id] = preStore[id]
        /\ (Failed /\ RevertOnError) =>
              \A id \in DOMAIN modifiedFunctions : emmebank[id] = preStore[id]

\* C22: an a record resets the buffer to its own fragment and stores it under
\* its id whatever was there before, leaving the other entries alone; a
\* continuation line extends the entry of the last a record only.
C22_LastAWins ==
    [][ /\ (ReadsLine /\ IsRecord(line', {"a"}) /\ error' = "none") =>
              /\ expressionBuffer' = RemoveSpaces(RStrip(AFragment(line')))
              /\ AId(line') \in DOMAIN functions'
              /\ functions'[AId(line')] = expressionBuffer'
              /\ currentId' = << AId(line') >>
              /\ \A id \in DOMAIN functions \ {AId(line')} :
                    id \in DOMAIN functions' /\ functions'[id] = functions[id]
        /\ (ReadsLine /\ IsRecord(line', {" "}) /\ error' = "none" /\ lastA # None) =>
              /\ functions'[lastA[1]] =
                    functions[lastA[1]] \o RemoveSpaces(Strip(PayloadOf(line')))
              /\ \A id \in DOMAIN functions \ {lastA[1]} : functions'[id] = functions[id]
              /\ DOMAIN functions' = DOMAIN functions ]_vars

C22_Witness ==
    /\ pc = "parse" /\ lastA # None
    /\ lastA[1] \in DOMAIN aRecords /\ aRecords[lastA[1]] >= 2
    /\ IsRecord(line, {" "})
    /\ Len(rawFunctions[lastA[1]]) = 2
    /\ nread = 5
    /\ functions[lastA[1]] = Concat(PartsNoSpaces(rawFunctions[lastA[1]]))

\* C23: at every point of a merge the added list holds only ids of the file
\* that were not in the store and that this call created, each once, none of
\* them in the modified map; no function that existed before is deleted.
C23_AddedAreNew ==
    /\ Range(newFunctions) \subseteq FileOnlyIds
    /\ Range(newFunctions) \subseteq CreatedIds
    /\ Cardinality(Range(newFunctions)) = Len(newFunctions)
    /\ Range(newFunctions) \cap DOMAIN modifiedFunctions = {}
    /\ \A op \in storeOps : op[1] = "delete" => op[2] \notin PreIds
    /\ PreIds \subseteq DOMAIN emmebank

C23_Witness ==
    /\ Failed /\ RevertOnError
    /\ Len(newFunctions) >= 1 /\ modifiedFunctions # EmptyDict
    /\ \E op \in storeOps : op[1] = "delete"
    /\ \E op \in storeOps : op[1] = "restore"

\* C24: after every line, an open context implies that a valid t record was
\* read and that the entry of currentId is the buffer; every key of the table
\* is the id of an a record read so far; trecord, once set, stays set.
C24_ParserInvariant ==
    /\ [](/\ currentId # None =>
                /\ tSeen /\ trecord
                /\ currentId[1] \in DOMAIN functions
                /\ functions[currentId[1]] = expressionBuffer
          /\ DOMAIN functions \subseteq DOMAIN aRecords)
    /\ [][trecord => trecord']_vars

C24_Witness ==
    /\ pc = "parse" /\ currentId # None
    /\ Len(rawFunctions[currentId[1]]) >= 2
    /\ Cardinality(DOMAIN functions) >= 2
    /\ expressionBuffer # <<>>

\* C25: through run() with an option other than OVERWRITE and RAISE, the
\* conflicts raise nothing, no conflicting id is assigned and the modified
\* count is 0; under EDIT the sorted conflict list is stored on the tool and
\* show_edit_dialog is set, is_sub_call staying false; otherwise neither is.
C25_OtherOptionsLeaveConflicts ==
    ConflictOption \notin {OVERWRITE_OPTION, RAISE_OPTION} =>
        /\ error \in ParseErrors \cup {"IOError", "none"}
        /\ pc \in {"load", "add", "resolve", "return"} => error = "none"
        /\ pc # "except"
        /\ AssignedIds = {} /\ modifiedFunctions = EmptyDict /\ ~RolledBack
        /\ \A id \in ConflictIds : emmebank[id] = preStore[id]
        /\ Returned => result[2] = 0
        /\ ~is_sub_call
        /\ IF ConflictOption = EDIT_OPTION /\ Returned /\ ConflictIds # {}
           THEN /\ show_edit_dialog
                /\ Len(function_conflicts) = Cardinality(ConflictIds)
                /\ \A i \in 1..Len(function_conflicts) :
                      LET c == function_conflicts[i]
                      IN  /\ c.id \in ConflictIds
                          /\ c.database_expression = RemoveSpaces(preStore[c.id])
                          /\ c.file_expression = fileFunctions[c.id]
                          /\ \A j \in 1..(i - 1) : StrLess(function_conflicts[j].id, c.id)
           ELSE (ConflictOption # EDIT_OPTION \/ ConflictIds = {}) =>
                    (function_conflicts = None /\ ~show_edit_dialog)

C25_Witness ==
    /\ Returned /\ ConflictOption = EDIT_OPTION
    /\ Cardinality(ConflictIds) >= 2
    /\ show_edit_dialog /\ nread >= 3
====
